---- MODULE Spec2Model ----
(***************************************************************************)
(* The RSVP reader of spritz: the Reader component (playback clock,        *)
(* seeking, bookmark restore and save) and the bookmark store of           *)
(* EpubDatabase, as a state machine.                                       *)
(*                                                                         *)
(* Granularity.  One action is one task of the browser's event loop: an    *)
(* event handler, an animation-frame callback or the continuation of an    *)
(* awaited promise, together with the render React commits for the state   *)
(* it set and the effects of that render (Commit).  The word list is       *)
(* represented by its length, a percentage p by the fraction p / 100 as a  *)
(* pair num / den, and time is in milliseconds.                            *)
(***************************************************************************)
EXTENDS Integers, Sequences, FiniteSets, TLC

\* ------------------------------------------------------------------------
\* Bounds of the model
\* ------------------------------------------------------------------------
MaxWords == 3

MaxTime == 400

MaxPuts == 1

MaxInits == 1

\* times a mounted Reader is handed other props: another bookId, then its text
MaxHanded == 2

FracDen == 4

\* a product of doubles is worked out in digits of DigitBits bits, so that a
\* column of products of digits stays below 2^31
DigitBits == 14

\* a quotient of doubles is worked out on significands in two halves, the lower
\* of HalfBits bits, so that twice a half stays below 2^31
HalfBits == 27

\* bits of the significand of a double
Mantissa == 53

\* the significand is worked on in limbs of LimbBits bits, so that a limb times
\* a multiplier and a remainder times the base stay below 2^31
LimbBits == 16

\* words of the text the clock is timed on, and the time it is left running
ClockWords == 8

ClockWindow == 1000

\* words of the longest text the seeks are exercised on
SeekWords == 12

\* words of the longest text a saved position is restored on
RoundTripWords == 12

\* ------------------------------------------------------------------------
\* Inputs
\* ------------------------------------------------------------------------
\* getDB calls the handle specification follows
MaxCalls == 4

Calls == 1..MaxCalls

\* no getDB call made yet
NoCalls == [k \in Calls |-> [pc |-> "idle", handle |-> 0]]

\* longest file name the uploader is given, in characters
MaxName == 4

\* characters of file names: the dot, letters of registered extensions, a
\* capital letter, and a letter of no extension
NameChars == {".", "p", "d", "f", "P", "m"}

\* File.name, as a sequence of characters
FileNames == UNION {[1..n -> NameChars] : n \in 1..MaxName}

\* File.type, which a File holds in lower case: empty when the browser knows
\* none
FileTypes == {"", "application/pdf", "application/epub+zip", "text/plain", "image/png"}

Files == [name : FileNames, type : FileTypes]

\* crypto.randomUUID values
UploadIds == {"u1", "u2"}

\* no file dialog is open
NoUpload == [pc |-> "idle"]

\* the file dialog was closed: with a file chosen, or with none
FileDialogs == {[pc |-> "chosen", file |-> file] : file \in Files} \cup {[pc |-> "cancelled"]}

\* longest text the tokenizer is given, in characters
MaxText == 4

\* longest word the display is given, in characters
MaxWordLength == 24

\* characters of texts: letters in both cases, punctuation, and whitespace
TextChars == {"a", "B", ",", " ", "\n"}

\* what /\s/ matches and trim removes, among the characters of texts
WhiteSpace == {" ", "\n"}

\* prop text, as a sequence of characters
Texts == UNION {[1..n -> TextChars] : n \in 0..MaxText}

\* word.length of the words displayed
WordLengths == 0..MaxWordLength

\* window.innerWidth values: none yet, narrower than the padding, the padding,
\* phones, the breakpoints and their neighbours, and wide screens
Widths == {0, 1, 63, 64, 65, 100, 320, 390, 544, 639, 640, 641, 768, 1023, 1024, 1025,
           1080, 1920, 3840}

BookIds == {"b1", "b2"}

\* the book the reader is opened on; the other one is opened after it
FirstBook == "b1"

\* values of the speed slider (min 100, max 1000, step 50) used by the model
WpmSet == {150, 300}

\* time between two animation frames
FrameDeltas == {200, 400}

\* time between two animation frames while the clock is timed: late and
\* irregular frames
ClockDeltas == {50, 100, 150}

\* the texts a book can have, as the number of words they tokenize to
TextLengths == 0..MaxWords

\* every number of words a session of the model can have
WordCounts == 0..(IF SeekWords >= ClockWords THEN SeekWords ELSE ClockWords)

\* horizontal fractions x / rect.width of a click on the progress bar
Fractions == 0..FracDen

NoBookmark == [absent |-> TRUE]

\* percentages 0, 50 and 100 of the bookmark schema
StoredPercentages == {[num |-> 0, den |-> 1], [num |-> 1, den |-> 2], [num |-> 1, den |-> 1]}

StoredBookmarks == {NoBookmark} \cup
    {[absent |-> FALSE, percentage |-> p, updatedAt |-> 0] : p \in StoredPercentages}

VARIABLES
    mounted,          \* a Reader is mounted
    bookId,           \* prop bookId
    text,             \* prop text, as the number of words it tokenizes to
    words,            \* state words, as words.length
    currentIndex,     \* state currentIndex
    isPlaying,        \* state isPlaying
    wpm,              \* state wpm
    isLoading,        \* state isLoading
    rafRef,           \* rafRef.current, 0 for null
    lastUpdateRef,    \* lastUpdateRef.current
    playbackCleanup,  \* the playback effect's last run returned its cleanup
    keyWords,         \* words.length as captured by the registered handleKeyPress
    frames,           \* requested animation-frame callbacks, with what animate captured
    inits,            \* initReader calls that are awaiting the database
    bookmarks,        \* object store 'bookmarks', keyed by bookId
    books,            \* object store 'books', as the ids of the books it holds
    puts,             \* saveBookmark calls in flight, in the order they were issued
    now,              \* performance.now() and Date.now()
    putsLimit,        \* the number of saves the model lets be in flight at once
    handed,           \* the number of times the mounted Reader was handed other props
    db,               \* EpubDatabase.db, 0 for null, else the number of the handle it holds
    opens,            \* the number of openDB calls made; handles are numbered in that order
    getDBs,           \* the getDB calls of the process: not made, awaiting init, or settled
    isUploading,      \* FileUploader state isUploading
    upload,           \* FileUploader.handleFileChange: where it stands and what it holds
    rawText,          \* prop text, as the characters it is made of
    wordArray,        \* wordArray of initReader
    viewportWidth,    \* state viewportWidth
    currentWord,      \* currentWord of the render, as its length
    orpIndex,         \* orpIndex of the render
    fontSize,         \* fontSize of the render
    lastOp,           \* history: the last action taken
    wasPlaying,       \* history: isPlaying before the last action
    lastAdvance,      \* history: time of the last advance of the clock, or of its start
    userActive        \* history: the user is still giving input

vars == <<mounted, bookId, text, words, currentIndex, isPlaying, wpm, isLoading,
          rafRef, lastUpdateRef, playbackCleanup, keyWords, frames, inits,
          bookmarks, books, puts, now, putsLimit, handed, db, opens, getDBs,
          isUploading, upload, rawText, wordArray, viewportWidth, currentWord,
          orpIndex, fontSize, lastOp, wasPlaying, lastAdvance, userActive>>

\* a JavaScript number that is an integer, and NaN
Number(n) == [nan |-> FALSE, value |-> n]

NaN == [nan |-> TRUE, value |-> 0]

\* a Reader that tokenizes and displays nothing: the tokenizer and the display
\* have specifications of their own
NoDisplay ==
    /\ rawText = <<>>
    /\ wordArray = <<>>
    /\ viewportWidth = 0
    /\ currentWord = 0
    /\ orpIndex = 0
    /\ fontSize = Number(96)

\* ------------------------------------------------------------------------
\* The component's state as a record, so that handlers and effects compose
\* ------------------------------------------------------------------------
Cur ==
    [words |-> words, currentIndex |-> currentIndex, isPlaying |-> isPlaying,
     wpm |-> wpm, isLoading |-> isLoading, rafRef |-> rafRef,
     lastUpdateRef |-> lastUpdateRef, playbackCleanup |-> playbackCleanup,
     keyWords |-> keyWords, frames |-> frames, puts |-> puts]

\* the element of a singleton set
Only(S) == CHOOSE x \in S : TRUE

Min(a, b) == IF a <= b THEN a ELSE b

Max(a, b) == IF a >= b THEN a ELSE b

\* Math.floor(x / y) for y > 0
FloorDiv(x, y) == x \div y

\* requestAnimationFrame's handles are never reused while something refers to them
FreshHandle(r) ==
    CHOOSE h \in 1..(Cardinality(r.frames) + 2) :
        /\ h # r.rafRef
        /\ \A f \in r.frames : f.id # h
        /\ \A g \in 1..(h - 1) : g = r.rafRef \/ \E f \in r.frames : f.id = g

requestAnimationFrame(r, capturedWords, capturedWpm) ==
    LET h == FreshHandle(r)
    IN [r EXCEPT !.frames = @ \cup {[id |-> h, reqAt |-> now,
                                     words |-> capturedWords, wpm |-> capturedWpm]},
                 !.rafRef = h]

\* mutant: cancelAnimationFrame cancels nothing
cancelAnimationFrame_Ignored(r, h) == r

cancelAnimationFrame(r, h) ==
    [r EXCEPT !.frames = {f \in @ : f.id # h}]

\* ------------------------------------------------------------------------
\* The numbers of the code are IEEE 754 doubles.  A positive double is the
\* record [bits, exp]: the binary number bits (Mantissa bits, the first is 1)
\* times 2^exp; Zero has no bits.  Division and multiplication by an integer
\* round to nearest, ties to even, as the hardware does.
\* ------------------------------------------------------------------------

RECURSIVE ToBits(_)
ToBits(n) == IF n = 0 THEN <<>> ELSE Append(ToBits(n \div 2), n % 2)

Zeros(k) == [j \in 1..k |-> 0]

RECURSIVE StripZeros(_)
StripZeros(s) == IF s = <<>> \/ s[1] = 1 THEN s ELSE StripZeros(Tail(s))


RECURSIVE Pow2(_)
Pow2(n) == IF n = 0 THEN 1 ELSE 2 * Pow2(n - 1)

RECURSIVE FromBits(_, _)
FromBits(s, j) == IF j = 0 THEN 0 ELSE 2 * FromBits(s, j - 1) + s[j]

LimbsOf(s) ==
    Only({[i \in 1..(Len(t) \div LimbBits) |->
              FromBits(SubSeq(t, LimbBits * (i - 1) + 1, LimbBits * i), LimbBits)] :
             t \in {Zeros((LimbBits - (Len(s) % LimbBits)) % LimbBits) \o s}})

BitsOf(limbs) ==
    [j \in 1..(LimbBits * Len(limbs)) |->
        (limbs[(j - 1) \div LimbBits + 1] \div Pow2(LimbBits - 1 - ((j - 1) % LimbBits))) % 2]

\* long division of the limbs s by k, from limb j on, with remainder r
RECURSIVE LongDiv(_, _, _, _, _)
LongDiv(s, j, k, r, q) ==
    IF j > Len(s)
    THEN [q |-> q, r |-> r]
    ELSE Only({LongDiv(s, j + 1, k, w[1], w[2]) :
                  w \in {<<(Pow2(LimbBits) * r + s[j]) % k,
                           Append(q, (Pow2(LimbBits) * r + s[j]) \div k)>>}})

\* s * k for the limbs s, from limb j down, with carry c
RECURSIVE LongMul(_, _, _, _, _)
LongMul(s, j, k, c, p) ==
    IF j = 0
    THEN <<c>> \o p
    ELSE Only({LongMul(s, j - 1, k, w[1], w[2]) :
                  w \in {<<(s[j] * k + c) \div Pow2(LimbBits),
                           <<(s[j] * k + c) % Pow2(LimbBits)>> \o p>>}})

\* s + 1 for the binary number s
RECURSIVE Increment(_)
Increment(s) ==
    IF s = <<>> THEN <<1>>
    ELSE IF s[Len(s)] = 0 THEN [s EXCEPT ![Len(s)] = 1]
    ELSE Append(Increment(SubSeq(s, 1, Len(s) - 1)), 0)

\* round to nearest, ties to even: bits * 2^exp (+ something below the last
\* bit when sticky) as a double [bits, exp] of Mantissa bits
Round(bits, exp, sticky) ==
    LET L == Len(bits)
    IN IF L <= Mantissa
       THEN [bits |-> bits \o Zeros(Mantissa - L), exp |-> exp - (Mantissa - L)]
       ELSE LET m == SubSeq(bits, 1, Mantissa)
                guard == bits[Mantissa + 1]
                below == sticky \/ \E j \in (Mantissa + 2)..L : bits[j] = 1
                up == guard = 1 /\ (below \/ m[Mantissa] = 1)
                n == IF up THEN Increment(m) ELSE m
            IN IF Len(n) > Mantissa
               THEN [bits |-> SubSeq(n, 1, Mantissa), exp |-> exp + (L - Mantissa) + 1]
               ELSE [bits |-> n, exp |-> exp + (L - Mantissa)]

Zero == [bits |-> <<>>, exp |-> 0]

\* x / k for a double x and an integer k >= 1
FDiv(x, k) ==
    IF x.bits = <<>> THEN Zero
    ELSE LET extra == Mantissa + 2 + Len(ToBits(k))
         IN Only({Round(StripZeros(BitsOf(d.q)), x.exp - extra, d.r # 0) :
                     d \in {LongDiv(s, 1, k, 0, <<>>) :
                               s \in {LimbsOf(x.bits \o Zeros(extra))}}})

\* x * k for a double x and an integer k >= 0
FMul(x, k) ==
    IF x.bits = <<>> \/ k = 0 THEN Zero
    ELSE Only({Round(StripZeros(BitsOf(p)), x.exp, FALSE) :
                  p \in {LongMul(s, Len(s), k, 0, <<>>) : s \in {LimbsOf(x.bits)}}})

\* the double of an integer n >= 0
FInt(n) == IF n = 0 THEN Zero ELSE Round(ToBits(n), 0, FALSE)

\* Math.floor(x) for a double x >= 0 below 2^31
FFloor(x) ==
    IF x.bits = <<>> \/ Len(x.bits) + x.exp <= 0 THEN 0
    ELSE IF x.exp >= 0 THEN FromBits(x.bits \o Zeros(x.exp), Len(x.bits) + x.exp)
    ELSE FromBits(x.bits, Len(x.bits) + x.exp)

\* 2^DigitBits
DigitBase == Pow2(DigitBits)

\* 2^HalfBits
HalfBase == Pow2(HalfBits)

\* the four digits of a mantissa in base 2^DigitBits, the first the highest
DigitsOf(bits) ==
    Only({[i \in 1..4 |-> FromBits(SubSeq(t, DigitBits * (i - 1) + 1, DigitBits * i), DigitBits)] :
             t \in {Zeros(4 * DigitBits - Len(bits)) \o bits}})

\* the bits of a digit
DigitBitsOf(d) == [j \in 1..DigitBits |-> (d \div Pow2(DigitBits - j)) % 2]

\* the sum of the products of the digits of a and b that weigh 2^(DigitBits * k)
Column(a, b, k) ==
    LET pairs == {i \in 1..4 : 4 - i <= k /\ k - (4 - i) <= 3}
        term(i) == a[i] * b[4 - (k - (4 - i))]
    IN (IF 1 \in pairs THEN term(1) ELSE 0) + (IF 2 \in pairs THEN term(2) ELSE 0)
         + (IF 3 \in pairs THEN term(3) ELSE 0) + (IF 4 \in pairs THEN term(4) ELSE 0)

\* the bits of a * b for the digits a and b: the columns from the lowest on,
\* with carry c
RECURSIVE LongProduct(_, _, _, _, _)
LongProduct(a, b, k, c, p) ==
    IF k > 6
    THEN DigitBitsOf(c) \o p
    ELSE Only({LongProduct(a, b, k + 1, w \div DigitBase,
                           DigitBitsOf(w % DigitBase) \o p) :
                  w \in {Column(a, b, k) + c}})

\* x * y for doubles x and y
FTimes(x, y) ==
    IF x.bits = <<>> \/ y.bits = <<>> THEN Zero
    ELSE Only({Round(StripZeros(p), x.exp + y.exp, FALSE) :
                  p \in {LongProduct(a, b, 0, 0, <<>>) :
                            a \in {DigitsOf(x.bits)}, b \in {DigitsOf(y.bits)}}})

\* a mantissa as two halves, the lower of HalfBits bits
HalvesOf(bits) ==
    <<FromBits(SubSeq(bits, 1, Mantissa - HalfBits), Mantissa - HalfBits),
      FromBits(SubSeq(bits, Mantissa - HalfBits + 1, Mantissa), HalfBits)>>

\* r - y for the halves r >= y
HalvesMinus(r, y) ==
    IF r[2] >= y[2] THEN <<r[1] - y[1], r[2] - y[2]>>
    ELSE <<r[1] - y[1] - 1, r[2] + HalfBase - y[2]>>

HalvesGeq(r, y) == r[1] > y[1] \/ (r[1] = y[1] /\ r[2] >= y[2])

\* k * y for the halves y and a digit k
HalvesTimes(y, k) ==
    <<k * y[1] + (k * y[2]) \div HalfBase, (k * y[2]) % HalfBase>>

\* the next n hexadecimal digits of the quotient r / y, for the remainder
\* r < y, as bits
RECURSIVE QuotientDigits(_, _, _, _)
QuotientDigits(r, y, n, q) ==
    IF n = 0
    THEN [q |-> q, r |-> r]
    ELSE Only({QuotientDigits(HalvesMinus(w[1], HalvesTimes(y, w[2])), y, n - 1,
                              q \o <<(w[2] \div 8) % 2, (w[2] \div 4) % 2,
                                     (w[2] \div 2) % 2, w[2] % 2>>) :
                  w \in {<<d, CHOOSE k \in 0..15 :
                                 /\ HalvesGeq(d, HalvesTimes(y, k))
                                 /\ k < 15 => ~HalvesGeq(d, HalvesTimes(y, k + 1))>> :
                            d \in {<<16 * r[1] + (16 * r[2]) \div HalfBase,
                                     (16 * r[2]) % HalfBase>>}}})

\* digits of the quotient worked out: with the leading bit they are more than
\* the significand, its guard bit and one more
QuotientLength == 14

\* x / y for doubles x and y > 0
FQuotient(x, y) ==
    IF x.bits = <<>> THEN Zero
    ELSE Only({Round(StripZeros(d.q), x.exp - y.exp - 4 * QuotientLength, d.r # <<0, 0>>) :
                  d \in {IF HalvesGeq(a, b)
                         THEN QuotientDigits(HalvesMinus(a, b), b, QuotientLength, <<1>>)
                         ELSE QuotientDigits(a, b, QuotientLength, <<0>>) :
                            a \in {HalvesOf(x.bits)}, b \in {HalvesOf(y.bits)}}})

\* 0.95, the share of the width a word may take
availableShare == FDiv(FInt(19), 20)

\* 0.6
charWidthRatio == FDiv(FInt(3), 5)

\* 0.85, for words of more than 15 characters
longWordScale == FDiv(FInt(17), 20)

\* 0.8, for words of more than 20 characters
longerWordScale == FDiv(FInt(4), 5)

maxContainerWidth == 672 - 64

\* mutant: the content column does not cap the width
columnWidth_Viewport(width) == width - 64

\* the width that 95% of is available to a word, in pixels: the window less
\* the padding, and no more than the content column
columnWidth(width) == Min(width - 64, maxContainerWidth)

\* mutant: fontSize has no lower bound
minFontSize_None(width) == 0

\* the bounds fontSize is clamped to at a viewport width
minFontSize(width) == IF width < 640 THEN 24 ELSE IF width < 1024 THEN 32 ELSE 48

maxFontSize(width) == IF width < 640 THEN 64 ELSE IF width < 1024 THEN 96 ELSE 128

\* a double that is NaN
NotANumber == [nan |-> TRUE]

\* fontSize after Math.min and Math.max: availableWidth / (wordLength *
\* charWidthRatio) clamped. A division by zero gives Infinity, -Infinity or,
\* for 0 / 0, NaN, which Math.min and Math.max hand on; a negative quotient or
\* -Infinity is raised to the lower bound, Infinity lowered to the upper
clampedFontSize(wordLength, width) ==
    LET m == columnWidth(width)
        lo == minFontSize(width)
        hi == maxFontSize(width)
    IN IF wordLength = 0
       THEN IF m > 0 THEN FInt(hi) ELSE IF m < 0 THEN FInt(lo) ELSE NotANumber
       ELSE IF m <= 0 THEN FInt(lo)
       ELSE Only({IF FFloor(q) >= hi THEN FInt(hi)
                  ELSE IF FFloor(q) < lo THEN FInt(lo)
                  ELSE q :
                     q \in {FQuotient(a, d) : a \in {FMul(availableShare, m)},
                                              d \in {FMul(charWidthRatio, wordLength)}}})

\* mutant: the scaling of long words is left out
scaledFontSize_Unscaled(wordLength, width) == clampedFontSize(wordLength, width)

\* fontSize after the scaling of long words
scaledFontSize(wordLength, width) ==
    Only({IF wordLength > 20 THEN FTimes(s, longerWordScale) ELSE s :
             s \in {IF wordLength > 15 THEN FTimes(c, longWordScale) ELSE c :
                       c \in {clampedFontSize(wordLength, width)}}})

\* calculateFontSize, of word.length and viewportWidth
calculateFontSize(wordLength, width) ==
    IF width = 0 THEN Number(96)
    ELSE Only({IF "nan" \in DOMAIN s THEN NaN ELSE Number(FFloor(s)) :
                  s \in {scaledFontSize(wordLength, width)}})

\* calculateFontSize for the words and the widths of the model
FontSizes == [width \in Widths |-> [length \in WordLengths |-> calculateFontSize(length, width)]]

\* Math.floor(percentage * words.length) with percentage = x / rect.width, for
\* the clicks at x = k on a bar FracDen wide and the word counts of the model
ClickIndex ==
    [k \in Fractions |->
        [n \in WordCounts |->
            Only({FFloor(m) : m \in {FMul(f, n) : f \in {FDiv(FInt(k), FracDen)}}})]]

\* (currentIndex / words.length) * 100: the double is named by the two integers
\* it is computed from
Percentage(index, length) == [num |-> index, den |-> length]

\* the double a percentage names
DoubleOf(p) == Only({FMul(q, 100) : q \in {FDiv(f, p.den) : f \in {FInt(p.num)}}})

\* Math.floor((percentage / 100) * length)
SavedIndex(p, length) ==
    Only({FFloor(m) : m \in {FMul(d, length) : d \in {FDiv(x, 100) : x \in {DoubleOf(p)}}}})

\* elapsed >= msPerWord, with msPerWord = 60000 / wpm
IntervalElapsed(elapsed, w) == elapsed * w >= 60000

\* ------------------------------------------------------------------------
\* Effects of Reader (useEffect), run by Commit after a render
\* ------------------------------------------------------------------------

\* mutant: the save effect depends on words.length only
saveEffect_OnLengthOnly(prev, r, b) ==
    IF prev.words = r.words
    THEN r
    ELSE IF r.words > 0 /\ r.currentIndex >= 0
         THEN [r EXCEPT !.puts = Append(@, [bookId |-> b,
                                           percentage |-> Percentage(r.currentIndex, r.words),
                                           updatedAt |-> now])]
         ELSE r

\* body of the bookmark save effect
saveEffectBody(r, b) ==
    IF r.words > 0 /\ r.currentIndex >= 0
    THEN [r EXCEPT !.puts = Append(@, [bookId |-> b,
                                      percentage |-> Percentage(r.currentIndex, r.words),
                                      updatedAt |-> now])]
    ELSE r

\* bookmark save effect, dependencies [currentIndex, words.length, bookId]; a
\* change of bookId is a change of props, see PropsChange
saveEffect(prev, r, b) ==
    IF prev.currentIndex = r.currentIndex /\ prev.words = r.words
    THEN r
    ELSE saveEffectBody(r, b)

\* the cleanup the playback effect returns
playbackEffectCleanup(r) ==
    IF r.rafRef # 0
    THEN [cancelAnimationFrame(r, r.rafRef) EXCEPT !.rafRef = 0]
    ELSE r

\* mutant: the playback effect without its stop at the last word
playbackEffectBody_NoEndStop(r) ==
    IF ~r.isPlaying
    THEN [playbackEffectCleanup(r) EXCEPT !.playbackCleanup = FALSE]
    ELSE [requestAnimationFrame([r EXCEPT !.lastUpdateRef = now], r.words, r.wpm)
              EXCEPT !.playbackCleanup = TRUE]

\* body of the playback effect
playbackEffectBody(r) ==
    IF ~r.isPlaying
    THEN [playbackEffectCleanup(r) EXCEPT !.playbackCleanup = FALSE]
    ELSE IF r.currentIndex >= r.words - 1
         THEN [r EXCEPT !.isPlaying = FALSE, !.playbackCleanup = FALSE]
         ELSE [requestAnimationFrame([r EXCEPT !.lastUpdateRef = now], r.words, r.wpm)
                   EXCEPT !.playbackCleanup = TRUE]

\* playback effect, dependencies [isPlaying, wpm, currentIndex, words.length]
playbackEffect(prev, r) ==
    IF /\ prev.isPlaying = r.isPlaying
       /\ prev.wpm = r.wpm
       /\ prev.currentIndex = r.currentIndex
       /\ prev.words = r.words
    THEN r
    ELSE playbackEffectBody(IF r.playbackCleanup THEN playbackEffectCleanup(r) ELSE r)

\* keydown effect, dependencies [words.length]: handleKeyPress is registered anew
keyEffect(prev, r) ==
    IF prev.words = r.words THEN r ELSE [r EXCEPT !.keyWords = r.words]

\* the effects of one render, in the order they are declared
Effects(prev, r, b) ==
    Only({keyEffect(prev, p) :
             p \in {playbackEffect(prev, s) : s \in {saveEffect(prev, r, b)}}})

\* The render of the state r after the render of prev, with its effects; the
\* playback effect may set isPlaying to false, which is rendered in turn.
Commit(prev, r, b) ==
    Only({IF c.isPlaying = r.isPlaying
          THEN c
          ELSE Effects([c EXCEPT !.isPlaying = r.isPlaying], c, b) :
              c \in {Effects(prev, r, b)}})

\* what the component renders
View ==
    IF ~mounted THEN "none"
    ELSE IF isLoading THEN "loading"
    ELSE IF words = 0 THEN "empty"
    ELSE "reader"

\* ------------------------------------------------------------------------
\* Event handlers of Reader, as functions of the component's state
\* ------------------------------------------------------------------------
keySpace(r) == [r EXCEPT !.isPlaying = ~@]

keyArrowLeft(r) ==
    [r EXCEPT !.currentIndex = Max(0, @ - 1), !.isPlaying = FALSE]

\* mutant: ArrowRight without Math.min
keyArrowRight_Unclamped(r) ==
    [r EXCEPT !.currentIndex = @ + 1, !.isPlaying = FALSE]

keyArrowRight(r) ==
    [r EXCEPT !.currentIndex = Min(r.keyWords - 1, @ + 1), !.isPlaying = FALSE]

togglePlayPause(r) == [r EXCEPT !.isPlaying = ~r.isPlaying]

\* mutant: skipBack without setIsPlaying(false)
skipBack_KeepsPlaying(r) ==
    [r EXCEPT !.currentIndex = Max(0, @ - 10)]

skipBack(r) ==
    [r EXCEPT !.currentIndex = Max(0, @ - 10), !.isPlaying = FALSE]

\* mutant: the forward skip moves by 9 words
skipForward_ByNine(r) ==
    [r EXCEPT !.currentIndex = Min(r.words - 1, @ + 9), !.isPlaying = FALSE]

skipForward(r) ==
    [r EXCEPT !.currentIndex = Min(r.words - 1, @ + 10), !.isPlaying = FALSE]

\* mutant: a click on the progress bar without the clamp
handleProgressClick_Unclamped(r, k) ==
    [r EXCEPT !.currentIndex = ClickIndex[k][r.words], !.isPlaying = FALSE]

\* a click at x = k on a progress bar FracDen wide
handleProgressClick(r, k) ==
    LET newIndex == ClickIndex[k][r.words]
    IN [r EXCEPT !.currentIndex = Max(0, Min(r.words - 1, newIndex)),
                 !.isPlaying = FALSE]

\* mutant: a change of the rate starts the text over
setWpm_StartsOver(r, w) == [r EXCEPT !.wpm = w, !.currentIndex = 0]

setWpm(r, w) == [r EXCEPT !.wpm = w]

\* mutant: animate advances on every frame, whatever time has elapsed
animate_EveryFrame(r, f, timestamp) ==
    requestAnimationFrame(
        [(IF r.currentIndex >= f.words - 1
          THEN [r EXCEPT !.isPlaying = FALSE]
          ELSE [r EXCEPT !.currentIndex = @ + 1])
             EXCEPT !.lastUpdateRef = timestamp],
        f.words, f.wpm)

\* animate(timestamp) of the frame callback f, which requests the next frame
animate(r, f, timestamp) ==
    LET elapsed == timestamp - r.lastUpdateRef
        stepped ==
            IF IntervalElapsed(elapsed, f.wpm)
            THEN [(IF r.currentIndex >= f.words - 1
                   THEN [r EXCEPT !.isPlaying = FALSE]
                   ELSE [r EXCEPT !.currentIndex = @ + 1])
                      EXCEPT !.lastUpdateRef = timestamp]
            ELSE r
    IN requestAnimationFrame(stepped, f.words, f.wpm)

\* mutant: the restore lands at half the saved index
initReaderRestore_Halved(r, bm, wordArrayLength) ==
    IF ~bm.absent /\ bm.percentage.num > 0
    THEN [r EXCEPT !.currentIndex = SavedIndex(bm.percentage, wordArrayLength) \div 2]
    ELSE r

\* initReader after getBookmark: the restore of the saved position
initReaderRestore(r, bm, wordArrayLength) ==
    IF ~bm.absent /\ bm.percentage.num > 0
    THEN [r EXCEPT !.currentIndex = SavedIndex(bm.percentage, wordArrayLength)]
    ELSE r

\* mutant: saveBookmark adds, and keeps a position the book already has
saveBookmark_KeepsFirst(store, p) ==
    IF store[p.bookId].absent
    THEN [store EXCEPT ![p.bookId] = [absent |-> FALSE, percentage |-> p.percentage,
                                     updatedAt |-> p.updatedAt]]
    ELSE store

\* EpubDatabase.saveBookmark: db.put('bookmarks', bookmark)
saveBookmark(store, p) ==
    [store EXCEPT ![p.bookId] = [absent |-> FALSE, percentage |-> p.percentage,
                                 updatedAt |-> p.updatedAt]]

\* ------------------------------------------------------------------------
\* The tokenizer and the fixation point
\* ------------------------------------------------------------------------
\* text.split(/\s+/): the pieces between the runs of whitespace, with an empty
\* piece before a run the text starts with and after a run it ends with
RECURSIVE splitWhiteSpace(_, _, _, _)
splitWhiteSpace(str, i, piece, pieces) ==
    IF i > Len(str) THEN Append(pieces, piece)
    ELSE IF str[i] \notin WhiteSpace
    THEN splitWhiteSpace(str, i + 1, Append(piece, str[i]), pieces)
    ELSE IF i > 1 /\ str[i - 1] \in WhiteSpace
    THEN splitWhiteSpace(str, i + 1, piece, pieces)
    ELSE splitWhiteSpace(str, i + 1, <<>>, Append(pieces, piece))

\* w.trim()
RECURSIVE trim(_)
trim(w) ==
    IF w = <<>> THEN w
    ELSE IF w[1] \in WhiteSpace THEN trim(Tail(w))
    ELSE IF w[Len(w)] \in WhiteSpace THEN trim(SubSeq(w, 1, Len(w) - 1))
    ELSE w

NonEmpty(w) == Len(w) > 0

\* mutant: the tokenizer keeps the empty pieces
tokenize_KeepsEmpty(str) ==
    LET pieces == splitWhiteSpace(str, 1, <<>>, <<>>)
    IN [i \in 1..Len(pieces) |-> trim(pieces[i])]

\* initReader's wordArray: text.split(/\s+/).map(trim).filter(length > 0)
tokenize(str) ==
    LET pieces == splitWhiteSpace(str, 1, <<>>, <<>>)
    IN SelectSeq([i \in 1..Len(pieces) |-> trim(pieces[i])], NonEmpty)

\* mutant: getORP with <= 1 read as < 1, a word of one character in the band
\* of index 1
getORP_NoFirstBand(length) ==
    IF length < 1 THEN 0
    ELSE IF length <= 5 THEN 1
    ELSE IF length <= 9 THEN 2
    ELSE IF length <= 13 THEN 3
    ELSE 4

\* mutant: getORP with the band of the longest words left out
getORP_FourBands(length) ==
    IF length <= 1 THEN 0
    ELSE IF length <= 5 THEN 1
    ELSE IF length <= 9 THEN 2
    ELSE 3

\* getORP, of word.length
getORP(length) ==
    IF length <= 1 THEN 0
    ELSE IF length <= 5 THEN 1
    ELSE IF length <= 9 THEN 2
    ELSE IF length <= 13 THEN 3
    ELSE 4

\* ------------------------------------------------------------------------
\* Actions
\* ------------------------------------------------------------------------
UserOps == {"space", "arrowLeft", "arrowRight", "togglePlayPause", "skipBack",
            "skipForward", "progressClick", "setWpm"}

SeekOps == {"arrowLeft", "arrowRight", "skipBack", "skipForward", "progressClick"}

PlayPauseOps == {"space", "togglePlayPause"}

\* the initial values of useState and useRef
Unmounted ==
    [words |-> 0, currentIndex |-> 0, isPlaying |-> FALSE, wpm |-> 300,
     isLoading |-> TRUE, rafRef |-> 0, lastUpdateRef |-> 0,
     playbackCleanup |-> FALSE, keyWords |-> 0, frames |-> {}, puts |-> <<>>]

\* the step's new component state is r
ApplyValue(r) ==
    /\ words' = r.words
    /\ currentIndex' = r.currentIndex
    /\ isPlaying' = r.isPlaying
    /\ wpm' = r.wpm
    /\ isLoading' = r.isLoading
    /\ rafRef' = r.rafRef
    /\ lastUpdateRef' = r.lastUpdateRef
    /\ playbackCleanup' = r.playbackCleanup
    /\ keyWords' = r.keyWords
    /\ frames' = r.frames
    /\ puts' = r.puts
    /\ lastAdvance' = IF ~r.isPlaying THEN 0
                      ELSE IF ~isPlaying \/ r.currentIndex # currentIndex THEN now
                      ELSE lastAdvance
    /\ wasPlaying' = isPlaying

Apply(r) == \E v \in {r} : ApplyValue(v)

\* The model lets the user and the clock act while their saves leave at most
\* putsLimit saves in flight; the restore of a session's position is one more.
Bounded(r) == \E v \in {r} : Len(v.puts) <= putsLimit /\ ApplyValue(v)

InitReader(limit) ==
    /\ mounted = FALSE
    /\ bookId = "b1"
    /\ text = 0
    /\ words = 0
    /\ currentIndex = 0
    /\ isPlaying = FALSE
    /\ wpm = 300
    /\ isLoading = TRUE
    /\ rafRef = 0
    /\ lastUpdateRef = 0
    /\ playbackCleanup = FALSE
    /\ keyWords = 0
    /\ frames = {}
    /\ inits = {}
    /\ bookmarks \in {f \in [BookIds -> StoredBookmarks] :
                         \A b \in BookIds \ {FirstBook} : f[b] = NoBookmark}
    /\ books = BookIds
    /\ puts = <<>>
    /\ now = 0
    /\ putsLimit = limit
    /\ handed = 0
    /\ db = 0
    /\ opens = 0
    /\ getDBs = NoCalls
    /\ isUploading = FALSE
    /\ upload = NoUpload
    /\ NoDisplay
    /\ lastOp = "init"
    /\ wasPlaying = FALSE
    /\ lastAdvance = 0
    /\ userActive = TRUE

Init == InitReader(MaxPuts)

\* ReaderPage renders <Reader bookId text>: first render, its effects, and the
\* synchronous part of initReader (setIsLoading, setWords, getBookmark is called)
Mount(b, n) ==
    /\ userActive
    /\ ~mounted
    /\ Cardinality(inits) < MaxInits
    /\ mounted' = TRUE
    /\ bookId' = b
    /\ text' = n
    /\ Bounded(Commit([Unmounted EXCEPT !.puts = puts],
                      [Unmounted EXCEPT !.puts = puts, !.words = n], b))
    /\ inits' = inits \cup {[bookId |-> b, words |-> n, pc |-> "getBookmark",
                             bookmark |-> NoBookmark, live |-> TRUE]}
    /\ lastOp' = "mount"
    /\ UNCHANGED <<bookmarks, now, putsLimit, books, handed, userActive,
                   db, opens, getDBs, isUploading, upload,
                   rawText, wordArray, viewportWidth, currentWord, orpIndex, fontSize>>

\* navigation away: the cleanups of the effects run and the component's state is dropped
Unmount ==
    /\ userActive
    /\ mounted
    /\ mounted' = FALSE
    /\ LET a == IF rafRef # 0 THEN cancelAnimationFrame(Cur, rafRef) ELSE Cur
           c == IF playbackCleanup THEN playbackEffectCleanup(a) ELSE a
       IN Apply([Unmounted EXCEPT !.frames = c.frames, !.puts = puts])
    /\ inits' = {[c EXCEPT !.live = FALSE] : c \in inits}
    /\ lastOp' = "unmount"
    /\ UNCHANGED <<bookId, text, bookmarks, now, putsLimit, books, handed, userActive,
                   db, opens, getDBs, isUploading, upload,
                   rawText, wordArray, viewportWidth, currentWord, orpIndex, fontSize>>

\* ReaderPage renders the mounted Reader with another bookId, and later with
\* that book's text: the initReader effect is cleaned up and run again, the
\* save effect runs for a new bookId, and the state set by initReader is
\* rendered with its effects.  The component and its state stay.
PropsChange(b, n) ==
    /\ userActive
    /\ mounted
    /\ \/ b # bookId /\ n = text /\ handed % 2 = 0
       \/ b = bookId /\ n # text /\ handed % 2 = 1
    /\ Cardinality(inits) <= MaxInits
    /\ handed < MaxHanded
    /\ handed' = handed + 1
    /\ bookId' = b
    /\ text' = n
    /\ \E a \in {IF rafRef # 0 THEN cancelAnimationFrame(Cur, rafRef) ELSE Cur} :
          \E s \in {IF b # bookId THEN saveEffectBody(a, b) ELSE a} :
              Bounded(Commit(s, [s EXCEPT !.isLoading = TRUE, !.words = n], b))
    /\ inits' = inits \cup {[bookId |-> b, words |-> n, pc |-> "getBookmark",
                             bookmark |-> NoBookmark, live |-> TRUE]}
    /\ lastOp' = "propsChange"
    /\ UNCHANGED <<mounted, bookmarks, now, putsLimit, books, userActive,
                   db, opens, getDBs, isUploading, upload,
                   rawText, wordArray, viewportWidth, currentWord, orpIndex, fontSize>>

\* a user event whose handler takes the component's state from Cur to r
UserStep(op, r) ==
    /\ userActive
    /\ mounted
    /\ Bounded(Commit(Cur, r, bookId))
    /\ lastOp' = op
    /\ UNCHANGED <<mounted, bookId, text, inits, bookmarks, now, putsLimit, books, handed, userActive,
                   db, opens, getDBs, isUploading, upload,
                   rawText, wordArray, viewportWidth, currentWord, orpIndex, fontSize>>

Space == UserStep("space", keySpace(Cur))

ArrowLeft == UserStep("arrowLeft", keyArrowLeft(Cur))

ArrowRight == UserStep("arrowRight", keyArrowRight(Cur))

TogglePlayPause == View = "reader" /\ UserStep("togglePlayPause", togglePlayPause(Cur))

SkipBack == View = "reader" /\ UserStep("skipBack", skipBack(Cur))

SkipForward == View = "reader" /\ UserStep("skipForward", skipForward(Cur))

ProgressClick(k) ==
    View = "reader" /\ UserStep("progressClick", handleProgressClick(Cur, k))

SetWpm(w) == View = "reader" /\ w # wpm /\ UserStep("setWpm", setWpm(Cur, w))

\* the next animation frame begins once the callbacks of this one have run
Tick(d) ==
    /\ now + d <= MaxTime
    /\ \A f \in frames : f.reqAt = now
    /\ now' = now + d
    /\ lastOp' = "tick"
    /\ UNCHANGED <<mounted, bookId, text, words, currentIndex, isPlaying, wpm, isLoading,
                   rafRef, lastUpdateRef, playbackCleanup, keyWords, frames, inits,
                   bookmarks, puts, lastAdvance, putsLimit, books, handed, userActive,
                   db, opens, getDBs, isUploading, upload,
                   rawText, wordArray, viewportWidth, currentWord, orpIndex, fontSize>>
    /\ wasPlaying' = isPlaying

\* the browser runs a requested frame callback
AnimateFire(f) ==
    /\ f \in frames
    /\ f.reqAt < now
    /\ \E r \in {animate([Cur EXCEPT !.frames = @ \ {f}], f, now)} :
          /\ Bounded(Commit(Cur, r, bookId))
          /\ lastOp' = IF r.currentIndex # currentIndex THEN "advance" ELSE "frame"
    /\ UNCHANGED <<mounted, bookId, text, inits, bookmarks, now, putsLimit, books, handed, userActive,
                   db, opens, getDBs, isUploading, upload,
                   rawText, wordArray, viewportWidth, currentWord, orpIndex, fontSize>>

\* getBookmark resolves and initReader goes on to updateLastRead
GetBookmarkDone(c) ==
    /\ c \in inits
    /\ c.pc = "getBookmark"
    /\ LET bm == bookmarks[c.bookId]
       IN /\ IF c.live
             THEN Apply(Commit(Cur, initReaderRestore(Cur, bm, c.words), bookId))
             ELSE Apply(Cur)
          /\ inits' = (inits \ {c}) \cup
                         {[c EXCEPT !.pc = "updateLastRead", !.bookmark = bm]}
    /\ lastOp' = IF c.live THEN "restore" ELSE "staleRestore"
    /\ UNCHANGED <<mounted, bookId, text, bookmarks, now, putsLimit, books, handed, userActive,
                   db, opens, getDBs, isUploading, upload,
                   rawText, wordArray, viewportWidth, currentWord, orpIndex, fontSize>>

\* EpubDatabase.updateLastRead, its first transaction: db.get('books', bookId)
\* resolves. With no such book updateLastRead is done and initReader ends with
\* setIsLoading(false); with the book it goes on to db.put
UpdateLastReadGet(c) ==
    /\ c \in inits
    /\ c.pc = "updateLastRead"
    /\ IF c.bookId \in books
       THEN /\ Apply(Cur)
            /\ inits' = (inits \ {c}) \cup {[c EXCEPT !.pc = "putBook"]}
            /\ lastOp' = "gotBook"
       ELSE /\ IF c.live
               THEN Apply(Commit(Cur, [Cur EXCEPT !.isLoading = FALSE], bookId))
               ELSE Apply(Cur)
            /\ inits' = inits \ {c}
            /\ lastOp' = "loaded"
    /\ UNCHANGED <<mounted, bookId, text, bookmarks, now, putsLimit, books, handed, userActive,
                   db, opens, getDBs, isUploading, upload,
                   rawText, wordArray, viewportWidth, currentWord, orpIndex, fontSize>>

\* EpubDatabase.updateLastRead, its second transaction: db.put('books', book)
\* of the book read before resolves, and initReader ends with
\* setIsLoading(false)
UpdateLastReadDone(c) ==
    /\ c \in inits
    /\ c.pc = "putBook"
    /\ books' = books \cup {c.bookId}
    /\ IF c.live
       THEN Apply(Commit(Cur, [Cur EXCEPT !.isLoading = FALSE], bookId))
       ELSE Apply(Cur)
    /\ inits' = inits \ {c}
    /\ lastOp' = IF c.bookId \in books THEN "loaded" ELSE "loadedAndPutBack"
    /\ UNCHANGED <<mounted, bookId, text, bookmarks, now, putsLimit, handed, userActive,
                   db, opens, getDBs, isUploading, upload,
                   rawText, wordArray, viewportWidth, currentWord, orpIndex, fontSize>>

\* getBookmark or updateLastRead rejects: initReader has no try/catch and ends there
InitReaderReject(c) ==
    /\ c \in inits
    /\ inits' = inits \ {c}
    /\ lastOp' = "initRejected"
    /\ UNCHANGED <<mounted, bookId, text, words, currentIndex, isPlaying, wpm, isLoading,
                   rafRef, lastUpdateRef, playbackCleanup, keyWords, frames,
                   bookmarks, puts, now, lastAdvance, putsLimit, books, handed, userActive,
                   db, opens, getDBs, isUploading, upload,
                   rawText, wordArray, viewportWidth, currentWord, orpIndex, fontSize>>
    /\ wasPlaying' = isPlaying

\* mutant: deleteBook deletes from 'books' only
deleteBook_KeepsBookmark(st, id) ==
    [books |-> st.books \ {id}, bookmarks |-> st.bookmarks]

\* EpubDatabase.deleteBook: what its transaction over 'books' and 'bookmarks'
\* commits
deleteBook(st, id) ==
    [books |-> st.books \ {id}, bookmarks |-> [st.bookmarks EXCEPT ![id] = NoBookmark]]

\* the library page deletes a book: the transaction commits, as one step for
\* every other transaction
DeleteBook(b) ==
    /\ userActive
    /\ ~mounted
    /\ b \in books
    /\ \E st \in {deleteBook([books |-> books, bookmarks |-> bookmarks], b)} :
          /\ books' = st.books
          /\ bookmarks' = st.bookmarks
    /\ lastOp' = IF bookmarks[b].absent THEN "deleteBook" ELSE "deleteBookAndBookmark"
    /\ wasPlaying' = isPlaying
    /\ UNCHANGED <<mounted, bookId, text, words, currentIndex, isPlaying, wpm, isLoading,
                   rafRef, lastUpdateRef, playbackCleanup, keyWords, frames, inits,
                   puts, now, lastAdvance, putsLimit, handed, userActive,
                   db, opens, getDBs, isUploading, upload,
                   rawText, wordArray, viewportWidth, currentWord, orpIndex, fontSize>>

\* a request of the transaction fails: it aborts and nothing is deleted
DeleteBookAbort(b) ==
    /\ userActive
    /\ ~mounted
    /\ b \in books
    /\ lastOp' = "deleteAborted"
    /\ wasPlaying' = isPlaying
    /\ UNCHANGED <<mounted, bookId, text, words, currentIndex, isPlaying, wpm, isLoading,
                   rafRef, lastUpdateRef, playbackCleanup, keyWords, frames, inits,
                   bookmarks, books, puts, now, lastAdvance, putsLimit, handed, userActive,
                   db, opens, getDBs, isUploading, upload,
                   rawText, wordArray, viewportWidth, currentWord, orpIndex, fontSize>>

RemoveAt(s, i) == SubSeq(s, 1, i - 1) \o SubSeq(s, i + 1, Len(s))

\* a saveBookmark in flight completes: its put is applied to the store
PutDone(i) ==
    /\ i \in 1..Len(puts)
    /\ bookmarks' = saveBookmark(bookmarks, puts[i])
    /\ puts' = RemoveAt(puts, i)
    /\ lastOp' = "putDone"
    /\ UNCHANGED <<mounted, bookId, text, words, currentIndex, isPlaying, wpm, isLoading,
                   rafRef, lastUpdateRef, playbackCleanup, keyWords, frames, inits,
                   now, lastAdvance, putsLimit, books, handed, userActive,
                   db, opens, getDBs, isUploading, upload,
                   rawText, wordArray, viewportWidth, currentWord, orpIndex, fontSize>>
    /\ wasPlaying' = isPlaying

\* a saveBookmark in flight rejects: nothing awaits it
PutFail(i) ==
    /\ i \in 1..Len(puts)
    /\ puts' = RemoveAt(puts, i)
    /\ lastOp' = "putFailed"
    /\ UNCHANGED <<mounted, bookId, text, words, currentIndex, isPlaying, wpm, isLoading,
                   rafRef, lastUpdateRef, playbackCleanup, keyWords, frames, inits,
                   bookmarks, now, lastAdvance, putsLimit, books, handed, userActive,
                   db, opens, getDBs, isUploading, upload,
                   rawText, wordArray, viewportWidth, currentWord, orpIndex, fontSize>>
    /\ wasPlaying' = isPlaying

Next ==
    \/ \E n \in TextLengths : Mount(FirstBook, n)
    \/ Unmount
    \/ Space
    \/ ArrowLeft
    \/ ArrowRight
    \/ TogglePlayPause
    \/ SkipBack
    \/ SkipForward
    \/ \E k \in Fractions : ProgressClick(k)
    \/ \E w \in WpmSet : SetWpm(w)
    \/ \E d \in FrameDeltas : Tick(d)
    \/ \E f \in frames : AnimateFire(f)
    \/ \E c \in inits : GetBookmarkDone(c)
    \/ \E c \in inits : UpdateLastReadGet(c)
    \/ \E c \in inits : UpdateLastReadDone(c)
    \/ \E c \in inits : InitReaderReject(c)
    \/ \E i \in 1..(MaxPuts + 1) : PutDone(i)
    \/ \E i \in 1..(MaxPuts + 1) : PutFail(i)

Spec == Init /\ [][Next]_vars

\* ------------------------------------------------------------------------
\* The store with several saves in flight: seeks and the passing of time
\* ------------------------------------------------------------------------
StoreInit == InitReader(MaxPuts + 1)

StoreNext ==
    \/ \E n \in TextLengths : Mount(FirstBook, n)
    \/ Unmount
    \/ ArrowLeft
    \/ ArrowRight
    \/ \E d \in FrameDeltas : Tick(d)
    \/ \E c \in inits : GetBookmarkDone(c)
    \/ \E c \in inits : UpdateLastReadGet(c)
    \/ \E c \in inits : UpdateLastReadDone(c)
    \/ \E i \in 1..(MaxPuts + 2) : PutDone(i)

StoreSpec == StoreInit /\ [][StoreNext]_vars

\* ------------------------------------------------------------------------
\* The clock left alone: the user stops giving input at some point, frames
\* keep coming and the database answers
\* ------------------------------------------------------------------------
UserStops ==
    /\ userActive
    /\ userActive' = FALSE
    /\ lastOp' = "userStops"
    /\ wasPlaying' = isPlaying
    /\ UNCHANGED <<mounted, bookId, text, words, currentIndex, isPlaying, wpm, isLoading,
                   rafRef, lastUpdateRef, playbackCleanup, keyWords, frames, inits,
                   bookmarks, puts, now, putsLimit, books, handed, lastAdvance,
                   db, opens, getDBs, isUploading, upload,
                   rawText, wordArray, viewportWidth, currentWord, orpIndex, fontSize>>

\* time goes on while the clock runs unattended
LiveTick(d) ==
    /\ ~userActive
    /\ isPlaying
    /\ \A f \in frames : f.reqAt = now
    /\ now' = now + d
    /\ lastOp' = "tick"
    /\ wasPlaying' = isPlaying
    /\ UNCHANGED <<mounted, bookId, text, words, currentIndex, isPlaying, wpm, isLoading,
                   rafRef, lastUpdateRef, playbackCleanup, keyWords, frames, inits,
                   bookmarks, puts, putsLimit, books, handed, lastAdvance, userActive,
                   db, opens, getDBs, isUploading, upload,
                   rawText, wordArray, viewportWidth, currentWord, orpIndex, fontSize>>

Frames == \E f \in frames : AnimateFire(f)

LiveTicks == \E d \in FrameDeltas : LiveTick(d)

PutsSettle == \E i \in 1..(MaxPuts + 1) : PutDone(i)

LiveNext ==
    \/ \E n \in TextLengths : Mount(FirstBook, n)
    \/ Space
    \/ ArrowRight
    \/ \E w \in WpmSet : SetWpm(w)
    \/ UserStops
    \/ \E d \in FrameDeltas : Tick(d)
    \/ LiveTicks
    \/ Frames
    \/ \E c \in inits : GetBookmarkDone(c)
    \/ \E c \in inits : UpdateLastReadGet(c)
    \/ \E c \in inits : UpdateLastReadDone(c)
    \/ PutsSettle

LiveSpec ==
    /\ Init
    /\ [][LiveNext]_vars
    /\ WF_vars(LiveTicks)
    /\ WF_vars(Frames)
    /\ WF_vars(PutsSettle)

\* ------------------------------------------------------------------------
\* The clock timed: a loaded session at its first word, playback is started
\* at time 0 and left running for ClockWindow ms under irregular frames
\* ------------------------------------------------------------------------
ClockInit ==
    /\ mounted = TRUE
    /\ bookId = "b1"
    /\ text = ClockWords
    /\ words = ClockWords
    /\ currentIndex = 0
    /\ isPlaying = FALSE
    /\ wpm = 300
    /\ isLoading = FALSE
    /\ rafRef = 0
    /\ lastUpdateRef = 0
    /\ playbackCleanup = FALSE
    /\ keyWords = ClockWords
    /\ frames = {}
    /\ inits = {}
    /\ bookmarks = [b \in BookIds |->
                        IF b = FirstBook
                        THEN [absent |-> FALSE, percentage |-> Percentage(0, ClockWords),
                              updatedAt |-> 0]
                        ELSE NoBookmark]
    /\ books = BookIds
    /\ puts = <<>>
    /\ now = 0
    /\ putsLimit = MaxPuts
    /\ handed = 0
    /\ db = 0
    /\ opens = 0
    /\ getDBs = NoCalls
    /\ isUploading = FALSE
    /\ upload = NoUpload
    /\ NoDisplay
    /\ lastOp = "loaded"
    /\ wasPlaying = FALSE
    /\ lastAdvance = 0
    /\ userActive = TRUE

\* playback is started, once
ClockStart == ~isPlaying /\ now = 0 /\ Space

\* time goes on while the clock runs, up to the end of the window
ClockTick(d) ==
    /\ isPlaying
    /\ now + d <= ClockWindow
    /\ \A f \in frames : f.reqAt = now
    /\ now' = now + d
    /\ lastOp' = "tick"
    /\ wasPlaying' = isPlaying
    /\ UNCHANGED <<mounted, bookId, text, words, currentIndex, isPlaying, wpm, isLoading,
                   rafRef, lastUpdateRef, playbackCleanup, keyWords, frames, inits,
                   bookmarks, puts, putsLimit, books, handed, lastAdvance, userActive,
                   db, opens, getDBs, isUploading, upload,
                   rawText, wordArray, viewportWidth, currentWord, orpIndex, fontSize>>

ClockNext ==
    \/ ClockStart
    \/ \E d \in ClockDeltas : ClockTick(d)
    \/ Frames
    \/ PutsSettle

ClockSpec == ClockInit /\ [][ClockNext]_vars

\* ------------------------------------------------------------------------
\* Seeking: a loaded, stopped session of up to SeekWords words at any of its
\* words, its position saved, and the steps, skips and clicks of the user
\* ------------------------------------------------------------------------
SeekInit ==
    /\ mounted = TRUE
    /\ bookId = "b1"
    /\ text \in 1..SeekWords
    /\ words = text
    /\ currentIndex \in 0..(text - 1)
    /\ isPlaying = FALSE
    /\ wpm = 300
    /\ isLoading = FALSE
    /\ rafRef = 0
    /\ lastUpdateRef = 0
    /\ playbackCleanup = FALSE
    /\ keyWords = text
    /\ frames = {}
    /\ inits = {}
    /\ bookmarks = [b \in BookIds |->
                        IF b = FirstBook
                        THEN [absent |-> FALSE, percentage |-> Percentage(currentIndex, text),
                              updatedAt |-> 0]
                        ELSE NoBookmark]
    /\ books = BookIds
    /\ puts = <<>>
    /\ now = 0
    /\ putsLimit = MaxPuts
    /\ handed = 0
    /\ db = 0
    /\ opens = 0
    /\ getDBs = NoCalls
    /\ isUploading = FALSE
    /\ upload = NoUpload
    /\ NoDisplay
    /\ lastOp = "loaded"
    /\ wasPlaying = FALSE
    /\ lastAdvance = 0
    /\ userActive = TRUE

SeekNext ==
    \/ ArrowLeft
    \/ ArrowRight
    \/ SkipBack
    \/ SkipForward
    \/ \E k \in Fractions : ProgressClick(k)
    \/ PutsSettle

SeekSpec == SeekInit /\ [][SeekNext]_vars

\* ------------------------------------------------------------------------
\* Sessions: the reader is opened on a book and, while it is open, handed
\* the other book and then that book's text
\* ------------------------------------------------------------------------
SessionNext ==
    \/ \E n \in TextLengths : Mount(FirstBook, n)
    \/ \E b \in BookIds, n \in TextLengths : PropsChange(b, n)
    \/ Space
    \/ ArrowRight
    \/ \E c \in inits : GetBookmarkDone(c)
    \/ \E c \in inits : UpdateLastReadGet(c)
    \/ \E c \in inits : UpdateLastReadDone(c)
    \/ PutsSettle

SessionSpec == Init /\ [][SessionNext]_vars

\* ------------------------------------------------------------------------
\* The round trip of a position: the reader has just been opened on a text
\* of up to RoundTripWords words whose position was saved, at any of its
\* words, by an earlier session on the same text
\* ------------------------------------------------------------------------
RoundTripInit ==
    /\ mounted = TRUE
    /\ bookId = FirstBook
    /\ text \in 1..RoundTripWords
    /\ words = text
    /\ currentIndex = 0
    /\ isPlaying = FALSE
    /\ wpm = 300
    /\ isLoading = TRUE
    /\ rafRef = 0
    /\ lastUpdateRef = 0
    /\ playbackCleanup = FALSE
    /\ keyWords = text
    /\ frames = {}
    /\ inits = {[bookId |-> FirstBook, words |-> text, pc |-> "getBookmark",
                 bookmark |-> NoBookmark, live |-> TRUE]}
    /\ \E i \in 0..(text - 1) :
          bookmarks = [b \in BookIds |->
                          IF b = FirstBook
                          THEN [absent |-> FALSE, percentage |-> Percentage(i, text),
                                updatedAt |-> 0]
                          ELSE NoBookmark]
    /\ books = BookIds
    /\ puts = <<[bookId |-> FirstBook, percentage |-> Percentage(0, text), updatedAt |-> 0]>>
    /\ now = 0
    /\ putsLimit = MaxPuts
    /\ handed = 0
    /\ db = 0
    /\ opens = 0
    /\ getDBs = NoCalls
    /\ isUploading = FALSE
    /\ upload = NoUpload
    /\ NoDisplay
    /\ lastOp = "mount"
    /\ wasPlaying = FALSE
    /\ lastAdvance = 0
    /\ userActive = TRUE

RoundTripNext ==
    \/ \E c \in inits : GetBookmarkDone(c)
    \/ \E c \in inits : UpdateLastReadGet(c)
    \/ \E c \in inits : UpdateLastReadDone(c)
    \/ PutsSettle

RoundTripSpec == RoundTripInit /\ [][RoundTripNext]_vars

\* ------------------------------------------------------------------------
\* The restore of a session: the read of the bookmark and the first save are
\* in flight, and the user may leave before either completes
\* ------------------------------------------------------------------------
RestoreNext ==
    \/ RoundTripNext
    \/ Unmount

RestoreSpec == RoundTripInit /\ [][RestoreNext]_vars

\* ------------------------------------------------------------------------
\* The library: books are opened, read, closed, and deleted from the library
\* page
\* ------------------------------------------------------------------------
LibraryNext ==
    \/ \E n \in TextLengths : FirstBook \in books /\ Mount(FirstBook, n)
    \/ Unmount
    \/ ArrowRight
    \/ \E c \in inits : GetBookmarkDone(c)
    \/ \E c \in inits : UpdateLastReadGet(c)
    \/ \E c \in inits : UpdateLastReadDone(c)
    \/ PutsSettle
    \/ \E b \in BookIds : DeleteBook(b)
    \/ \E b \in BookIds : DeleteBookAbort(b)

LibrarySpec == Init /\ [][LibraryNext]_vars

\* ------------------------------------------------------------------------
\* The database handle: getDB calls of one process, made while the database
\* is being opened or after
\* ------------------------------------------------------------------------
HandleUnchanged ==
    UNCHANGED <<mounted, bookId, text, words, currentIndex, isPlaying, wpm, isLoading,
                rafRef, lastUpdateRef, playbackCleanup, keyWords, frames, inits,
                bookmarks, books, puts, now, putsLimit, handed, wasPlaying,
                lastAdvance, userActive, isUploading, upload,
                rawText, wordArray, viewportWidth, currentWord, orpIndex, fontSize>>

\* EpubDatabase.getDB up to its first await: with this.db set it returns it,
\* else it calls init, which calls openDB
getDB(k) ==
    IF db # 0
    THEN /\ getDBs' = [getDBs EXCEPT ![k] = [pc |-> "returned", handle |-> db]]
         /\ opens' = opens
    ELSE /\ getDBs' = [getDBs EXCEPT ![k] = [pc |-> "init", handle |-> opens + 1]]
         /\ opens' = opens + 1

\* a database operation calls getDB
GetDB(k) ==
    /\ getDBs[k].pc = "idle"
    /\ getDB(k)
    /\ db' = db
    /\ lastOp' = "getDB"
    /\ HandleUnchanged

\* the open requests of one database are served in the order they were made
OldestOpen(k) ==
    /\ getDBs[k].pc = "init"
    /\ \A j \in Calls : getDBs[j].pc = "init" => getDBs[k].handle <= getDBs[j].handle

\* openDB resolves: init assigns the handle to this.db, and getDB, which
\* awaited init, returns this.db
OpenDBDone(k) ==
    /\ OldestOpen(k)
    /\ db' = getDBs[k].handle
    /\ getDBs' = [getDBs EXCEPT ![k] = [pc |-> "returned", handle |-> db']]
    /\ opens' = opens
    /\ lastOp' = "openDBDone"
    /\ HandleUnchanged

\* openDB rejects: init and the getDB that awaited it reject, this.db is left
OpenDBFail(k) ==
    /\ OldestOpen(k)
    /\ getDBs' = [getDBs EXCEPT ![k] = [pc |-> "rejected", handle |-> 0]]
    /\ UNCHANGED <<db, opens>>
    /\ lastOp' = "openDBFailed"
    /\ HandleUnchanged

HandleInit == InitReader(MaxPuts) /\ bookmarks[FirstBook] = NoBookmark

HandleNext ==
    \/ \E k \in Calls : GetDB(k)
    \/ \E k \in Calls : OpenDBDone(k)
    \/ \E k \in Calls : OpenDBFail(k)

HandleSpec == HandleInit /\ [][HandleNext]_vars

\* ------------------------------------------------------------------------
\* The uploader: a file is chosen, parsed by the parser registered for it and
\* added to the library
\* ------------------------------------------------------------------------
\* String.prototype.toLowerCase over the characters of file names
toLowerCase(str) ==
    [i \in 1..Len(str) |-> IF str[i] = "P" THEN "p" ELSE str[i]]

\* String.prototype.toLowerCase over File.type, of which "Application/PDF"
\* stands for the values that are not in lower case
typeToLowerCase(type) ==
    IF type = "Application/PDF" THEN "application/pdf" ELSE type

\* str.split('.'): the pieces between the dots, at least one piece
RECURSIVE split(_, _, _)
split(str, i, piece) ==
    IF i > Len(str) THEN <<piece>>
    ELSE IF str[i] = "." THEN <<piece>> \o split(str, i + 1, <<>>)
    ELSE split(str, i + 1, Append(piece, str[i]))

\* Array.prototype.pop: the last element
pop(array) == array[Len(array)]

epubParser ==
    [parser |-> "epubParser",
     supportedExtensions |-> {<<".", "e", "p", "u", "b">>},
     mimeTypes |-> {"application/epub+zip"}]

pdfParser ==
    [parser |-> "pdfParser",
     supportedExtensions |-> {<<".", "p", "d", "f">>},
     mimeTypes |-> {"application/pdf"}]

markdownParser ==
    [parser |-> "markdownParser",
     supportedExtensions |-> {<<".", "m", "d">>,
                              <<".", "m", "a", "r", "k", "d", "o", "w", "n">>,
                              <<".", "t", "x", "t">>},
     mimeTypes |-> {"text/markdown", "text/plain", "text/x-markdown"}]

parsers == <<epubParser, pdfParser, markdownParser>>

\* getParserForFile returns null
NoParser == [parser |-> "null"]

\* mutant: getParserForFile looks at the extension only
getParserForFile_ExtensionOnly(file) ==
    LET extension == <<".">> \o toLowerCase(pop(split(file.name, 1, <<>>)))
        found == {i \in 1..Len(parsers) : extension \in parsers[i].supportedExtensions}
    IN IF found = {} THEN NoParser
       ELSE parsers[CHOOSE i \in found : \A j \in found : i <= j]

\* getParserForFile: the first parser, in the order of the registry, that
\* lists the extension or the non-empty MIME type
getParserForFile(file) ==
    LET extension == <<".">> \o toLowerCase(pop(split(file.name, 1, <<>>)))
        mimeType == typeToLowerCase(file.type)
        found == {i \in 1..Len(parsers) :
                     \/ extension \in parsers[i].supportedExtensions
                     \/ mimeType # "" /\ mimeType \in parsers[i].mimeTypes}
    IN IF found = {} THEN NoParser
       ELSE parsers[CHOOSE i \in found : \A j \in found : i <= j]

UploaderUnchanged ==
    UNCHANGED <<mounted, bookId, text, words, currentIndex, isPlaying, wpm, isLoading,
                rafRef, lastUpdateRef, playbackCleanup, keyWords, frames, inits,
                bookmarks, puts, now, putsLimit, handed, wasPlaying,
                lastAdvance, userActive, db, opens, getDBs,
                rawText, wordArray, viewportWidth, currentWord, orpIndex, fontSize>>

\* handleFileChange with a file chosen: setIsUploading(true) and parseFile,
\* which throws when no parser is registered for the file; the catch and the
\* finally blocks then run
FileChange ==
    /\ ~isUploading
    /\ upload.pc = "chosen"
    /\ \E parser \in {getParserForFile(upload.file)} :
          IF parser = NoParser
          THEN /\ upload' = [pc |-> "failed", file |-> upload.file, error |-> "Unsupported file type"]
               /\ isUploading' = FALSE
               /\ lastOp' = "uploadFailed"
          ELSE /\ upload' = [pc |-> "parse", file |-> upload.file, parser |-> parser.parser]
               /\ isUploading' = TRUE
               /\ lastOp' = "fileChange"
    /\ books' = books
    /\ UploaderUnchanged

\* handleFileChange with no file chosen returns at once
FileChangeEmpty ==
    /\ ~isUploading
    /\ upload.pc = "cancelled"
    /\ upload' = NoUpload
    /\ lastOp' = "noFile"
    /\ UNCHANGED <<isUploading, books>>
    /\ UploaderUnchanged

\* parser.parse resolves with title, author and text: the book is made with
\* a fresh id and addBook is called
ParseDone ==
    /\ upload.pc = "parse"
    /\ \E id \in UploadIds \ books :
          upload' = [pc |-> "addBook", file |-> upload.file,
                     book |-> [id |-> id, title |-> "title", author |-> "author",
                               text |-> "text"]]
    /\ lastOp' = "parsed"
    /\ UNCHANGED <<isUploading, books>>
    /\ UploaderUnchanged

\* parser.parse rejects, on a file that is not what its name or type says:
\* the catch and the finally blocks run
ParseFail ==
    /\ upload.pc = "parse"
    /\ upload' = [pc |-> "failed", file |-> upload.file, error |-> upload.parser]
    /\ isUploading' = FALSE
    /\ lastOp' = "uploadFailed"
    /\ books' = books
    /\ UploaderUnchanged

\* EpubDatabase.addBook: db.put('books', book) resolves, then onUploadComplete
\* and the finally block
AddBookDone ==
    /\ upload.pc = "addBook"
    /\ books' = books \cup {upload.book.id}
    /\ upload' = [pc |-> "added", file |-> upload.file, book |-> upload.book]
    /\ isUploading' = FALSE
    /\ lastOp' = "uploaded"
    /\ UploaderUnchanged

\* EpubDatabase.addBook rejects: the catch and the finally blocks run
AddBookFail ==
    /\ upload.pc = "addBook"
    /\ upload' = [pc |-> "failed", file |-> upload.file, error |-> "addBook"]
    /\ isUploading' = FALSE
    /\ lastOp' = "uploadFailed"
    /\ books' = books
    /\ UploaderUnchanged

\* the application with no Reader mounted: the file dialog of the uploader, the
\* text a Reader is to be given, and the width and the word of a display
AppIdle(dialog, str, width, length) ==
    /\ mounted = FALSE
    /\ bookId = "b1"
    /\ text = 0
    /\ words = 0
    /\ currentIndex = 0
    /\ isPlaying = FALSE
    /\ wpm = 300
    /\ isLoading = TRUE
    /\ rafRef = 0
    /\ lastUpdateRef = 0
    /\ playbackCleanup = FALSE
    /\ keyWords = 0
    /\ frames = {}
    /\ inits = {}
    /\ bookmarks = [b \in BookIds |-> NoBookmark]
    /\ books = BookIds
    /\ puts = <<>>
    /\ now = 0
    /\ putsLimit = MaxPuts
    /\ handed = 0
    /\ db = 0
    /\ opens = 0
    /\ getDBs = NoCalls
    /\ isUploading = FALSE
    /\ upload = dialog
    /\ rawText = str
    /\ wordArray = <<>>
    /\ viewportWidth = width
    /\ currentWord = length
    /\ orpIndex = getORP(length)
    /\ fontSize = FontSizes[width][length]
    /\ lastOp = "init"
    /\ wasPlaying = FALSE
    /\ lastAdvance = 0
    /\ userActive = TRUE

UploaderInit == \E dialog \in FileDialogs : AppIdle(dialog, <<>>, 0, 0)

UploaderNext ==
    \/ FileChange
    \/ FileChangeEmpty
    \/ ParseDone
    \/ ParseFail
    \/ AddBookDone
    \/ AddBookFail

UploaderSpec == UploaderInit /\ [][UploaderNext]_vars

\* ------------------------------------------------------------------------
\* The tokenizer: initReader makes the words of a text
\* ------------------------------------------------------------------------
DisplayUnchanged ==
    UNCHANGED <<mounted, bookId, text, words, currentIndex, isPlaying, wpm, isLoading,
                rafRef, lastUpdateRef, playbackCleanup, keyWords, frames, inits,
                bookmarks, books, puts, now, putsLimit, handed, wasPlaying,
                lastAdvance, userActive, db, opens, getDBs, isUploading, upload>>

TokenizerInit == \E str \in Texts : AppIdle(NoUpload, str, 0, 0)

\* initReader splits the text it was given
Tokenize ==
    /\ lastOp = "init"
    /\ wordArray' = tokenize(rawText)
    /\ lastOp' = "tokenize"
    /\ UNCHANGED <<rawText, viewportWidth, currentWord, orpIndex, fontSize>>
    /\ DisplayUnchanged

TokenizerNext == Tokenize

TokenizerSpec == TokenizerInit /\ [][TokenizerNext]_vars

\* ------------------------------------------------------------------------
\* The display: the render works out the fixation point and the font size of
\* the current word, at the width of the window
\* ------------------------------------------------------------------------
DisplayInit == \E length \in WordLengths : AppIdle(NoUpload, <<>>, 0, length)

\* the render, for a word of a length at a width
Render(length, width) ==
    /\ currentWord' = length
    /\ viewportWidth' = width
    /\ orpIndex' = getORP(length)
    /\ fontSize' = FontSizes[width][length]
    /\ UNCHANGED <<rawText, wordArray>>
    /\ DisplayUnchanged

\* updateViewportWidth, after mount and on every resize of the window
UpdateViewportWidth(width) ==
    /\ width # viewportWidth
    /\ Render(currentWord, width)
    /\ lastOp' = "resize"

\* the current word becomes another one
ShowWord(length) ==
    /\ length # currentWord
    /\ Render(length, viewportWidth)
    /\ lastOp' = "showWord"

DisplayNext ==
    \/ \E width \in Widths : UpdateViewportWidth(width)
    \/ \E length \in WordLengths : ShowWord(length)

DisplaySpec == DisplayInit /\ [][DisplayNext]_vars

\* ------------------------------------------------------------------------
\* Claims
\* ------------------------------------------------------------------------
InBounds(index, length) == 0 <= index /\ index <= length - 1

Clamp(x, lo, hi) == Max(lo, Min(hi, x))

\* the steps of the running session: user operations, frame callbacks, clock advances
SessionOps == UserOps \cup {"advance", "frame", "tick"}

\* C1: in a session with at least one word whose currentIndex is inside
\* [0, wordCount-1], no playPause, step, skip, seek, setRate, frame callback or
\* passing of time takes currentIndex out of [0, wordCount-1].
C1_IndexStaysInBounds ==
    [][(lastOp' \in SessionOps /\ words >= 1 /\ InBounds(currentIndex, words))
          => InBounds(currentIndex', words')]_vars

\* C1 witness: a forward skip from inside the text has been clamped to the last word.
C1_Witness ==
    /\ lastOp = "skipForward"
    /\ words >= 2
    /\ currentIndex = words - 1

\* C2: after the restore of a stored percentage in (0, 100], currentIndex is
\* floor(percentage / 100 * wordCount) clamped into [0, wordCount-1].
C2_RestoreIsClamped ==
    \A c \in inits :
        (/\ lastOp = "restore"
         /\ c.live
         /\ c.pc = "updateLastRead"
         /\ c.words >= 1
         /\ ~c.bookmark.absent
         /\ c.bookmark.percentage.num > 0
         /\ c.bookmark.percentage.num <= c.bookmark.percentage.den)
        => currentIndex = Clamp(SavedIndex(c.bookmark.percentage, c.words), 0, c.words - 1)

\* C3: after a step, a skip or a seek, in whatever state it was invoked,
\* isPlaying is false.
C3_SeekPauses == lastOp \in SeekOps => ~isPlaying

\* C3 witness: a backward skip was made while the clock was running.
C3_Witness ==
    /\ lastOp = "skipBack"
    /\ wasPlaying
    /\ ~isPlaying

\* C4: a failure of the position store is not fatal: once initReader has
\* settled, by completing or by a failed read, the session has left its
\* loading state.
C4_FailureLeavesLoading ==
    (mounted /\ \A c \in inits : ~c.live) => ~isLoading

\* C5: every change of currentIndex in a session with at least one word issues,
\* in that step and after all saves issued before, a save for the session's
\* document with percentage = currentIndex / wordCount * 100.
C5_SaveOnIndexChange ==
    [][(mounted /\ mounted' /\ currentIndex' # currentIndex /\ words' >= 1)
          => puts' = Append(puts, [bookId |-> bookId',
                                   percentage |-> Percentage(currentIndex', words'),
                                   updatedAt |-> now])]_vars

\* C5 witness: the clock has advanced the index and the save of the new index
\* is the last one issued.
C5_Witness ==
    /\ lastOp = "advance"
    /\ currentIndex >= 1
    /\ Len(puts) >= 1
    /\ puts[Len(puts)].percentage = Percentage(currentIndex, words)

\* C6: the stored position of a document is never replaced by one with an
\* older updatedAt.
C6_NewestSaveWins ==
    [][\A b \in BookIds :
          (~bookmarks[b].absent /\ ~bookmarks'[b].absent)
              => bookmarks'[b].updatedAt >= bookmarks[b].updatedAt]_vars

\* C7: after playPause the clock is running only if currentIndex < wordCount-1;
\* a play request at the last word leaves it stopped.
C7_PlayOnlyBeforeEnd ==
    (lastOp \in PlayPauseOps /\ isPlaying) => currentIndex < words - 1

\* C7 witness: play was requested at the last word and the clock is stopped.
C7_Witness ==
    /\ lastOp \in PlayPauseOps
    /\ ~wasPlaying
    /\ ~isPlaying
    /\ words >= 1
    /\ currentIndex = words - 1

\* C9: with a text of zero words the clock never runs and no frame callback is
\* requested, whatever the input, and the view is never the reader: it is the
\* empty-content view as soon as loading ends.
C9_EmptyNeverRuns ==
    (mounted /\ text = 0)
        => /\ ~isPlaying
           /\ frames = {}
           /\ rafRef = 0
           /\ View \in {"loading", "empty"}

\* C9 witness: play was requested on an empty document and the clock is stopped.
C9_Witness ==
    /\ mounted
    /\ text = 0
    /\ lastOp \in PlayPauseOps
    /\ ~wasPlaying
    /\ ~isPlaying
    /\ View = "empty"

\* a frame callback ran in this step
FrameStep == lastOp' \in {"advance", "frame"}

\* C10 as stated: a frame callback advances currentIndex by 1 if the time since
\* the last advance (or the start of the clock) is at least 60000 / wpm ms and
\* by 0 otherwise.
C10_AdvanceSinceLastAdvance ==
    [][FrameStep
          => currentIndex' - currentIndex =
                 IF IntervalElapsed(now - lastAdvance, wpm) THEN 1 ELSE 0]_vars

\* C10 amended: a frame callback advances currentIndex by 1 if the time since
\* the clock's reference point (the last advance or restart of the loop) is at
\* least 60000 / wpm ms and by 0 otherwise, and moves the reference point only
\* when it advances.
C10_AdvanceSinceReference ==
    [][FrameStep
          => /\ currentIndex' - currentIndex =
                    IF IntervalElapsed(now - lastUpdateRef, wpm) THEN 1 ELSE 0
             /\ lastUpdateRef' # lastUpdateRef => currentIndex' = currentIndex + 1
             /\ isPlaying]_vars

\* C10 witness: a callback ran before the interval had elapsed and left the
\* index and the reference point alone, the clock still running.
C10_Witness ==
    /\ lastOp = "frame"
    /\ isPlaying
    /\ lastUpdateRef < now
    /\ ~IntervalElapsed(now - lastUpdateRef, wpm)

\* C8: left running without user input, the clock reaches the last word and
\* stops there.
C8_RunsToTheEnd ==
    (~userActive /\ isPlaying) ~> (~isPlaying /\ currentIndex = words - 1)

\* no frame callback is due: the callbacks of the current frame have run
FramesRan == \A f \in frames : f.reqAt = now

\* C11: playback started at 300 wpm at the first word of a long text and left
\* running for 1000 ms has advanced currentIndex by 5, give or take 1,
\* whatever the times of the frame callbacks in that window.
C11_FiveWordsASecond ==
    (isPlaying /\ now = ClockWindow /\ FramesRan)
        => (4 <= currentIndex /\ currentIndex <= 6)

\* C12: once the Reader is unmounted no frame callback is pending, so none
\* fires and none advances currentIndex after the teardown.
C12_NoCallbackAfterTeardown ==
    ~mounted => (frames = {} /\ lastOp \notin {"advance", "frame"})

\* C12 witness: the Reader was unmounted while the clock was running.
C12_Witness ==
    /\ lastOp = "unmount"
    /\ wasPlaying
    /\ ~mounted

\* C13: a change of the rate leaves currentIndex, isPlaying and the words as
\* they were, whether the clock is running or not, and wpm is always within
\* the slider's range [100, 1000].
C13_RateChangesOnlyRate ==
    [][/\ lastOp' = "setWpm" => /\ currentIndex' = currentIndex
                                /\ isPlaying' = isPlaying
                                /\ words' = words
                                /\ wpm' # wpm
       /\ wpm' >= 100
       /\ wpm' <= 1000]_vars

\* C13 witness: the rate was changed while the clock was running inside the text.
C13_Witness ==
    /\ lastOp = "setWpm"
    /\ wasPlaying
    /\ isPlaying
    /\ currentIndex >= 1

\* C16: a step moves currentIndex by exactly 1 and a skip by exactly 10 when
\* that stays inside [0, wordCount-1], and to the nearest bound otherwise: a
\* step forward at the last word and a step back at the first change nothing.
C16_StepsAndSkips ==
    [][/\ lastOp' = "arrowRight" => currentIndex' = Clamp(currentIndex + 1, 0, words - 1)
       /\ lastOp' = "arrowLeft" => currentIndex' = Clamp(currentIndex - 1, 0, words - 1)
       /\ lastOp' = "skipForward" => currentIndex' = Clamp(currentIndex + 10, 0, words - 1)
       /\ lastOp' = "skipBack" => currentIndex' = Clamp(currentIndex - 10, 0, words - 1)
       /\ lastOp' \in SeekOps => words' = words]_vars

\* C16 witness: a forward skip from the first word of a 12-word text has
\* landed exactly 10 words on, short of the last word.
C16_Witness ==
    /\ lastOp = "skipForward"
    /\ currentIndex = 10
    /\ words >= 12

\* C17: a click at the fraction f = k / FracDen of the progress bar sets
\* currentIndex to floor(f * wordCount) clamped into [0, wordCount-1]; f = 1
\* gives the last word and f = 0 the first.
C17_SeekToFraction ==
    [][\A k \in Fractions :
          ProgressClick(k)
              => /\ currentIndex' = Clamp(FloorDiv(k * words, FracDen), 0, words - 1)
                 /\ k = FracDen => currentIndex' = words - 1
                 /\ k = 0 => currentIndex' = 0]_vars

\* C17 witness: a click has put a text of more than FracDen words at its last
\* word, which only the click at f = 1 does, by the clamp.
C17_Witness ==
    /\ lastOp = "progressClick"
    /\ words > FracDen
    /\ currentIndex = words - 1

\* a session begins in this step
SessionBegins == lastOp' \in {"mount", "propsChange"}

\* C14: a session begins with currentIndex 0 and the clock stopped, it saves
\* no index other than 0 under its document id as it begins, and a restore
\* started for another document does not set its currentIndex.
C14_FreshSession ==
    [][/\ SessionBegins
          => /\ currentIndex' = 0
             /\ ~isPlaying'
             /\ \A i \in (Len(puts) + 1)..Len(puts') :
                    puts'[i].bookId = bookId' => puts'[i].percentage.num = 0
       /\ \A c \in inits :
             (GetBookmarkDone(c) /\ c.bookId # bookId) => currentIndex' = currentIndex]_vars

\* C15: a save is issued only by a step that changes currentIndex.
C15_SaveOnlyOnIndexChange ==
    [][Len(puts') > Len(puts) => currentIndex' # currentIndex]_vars

\* C18: restoring, on a text of n words, the percentage saved at index i of
\* that text lands within 1 of i, and on i itself where the arithmetic is
\* exact, as for n = 200 and i = 50.
C18_RoundTrip ==
    [][\A c \in inits :
          (GetBookmarkDone(c) /\ c.live /\ ~bookmarks[c.bookId].absent
                              /\ bookmarks[c.bookId].percentage.den = c.words)
              => /\ currentIndex' - bookmarks[c.bookId].percentage.num \in {-1, 0, 1}
                 /\ SavedIndex(Percentage(50, 200), 200) = 50]_vars

\* C18 witness: a position saved at index i of a text has been restored, on
\* the same text, one word before i.
C18_Witness ==
    /\ lastOp = "restore"
    /\ \E c \in inits :
          /\ c.pc = "updateLastRead"
          /\ ~c.bookmark.absent
          /\ c.bookmark.percentage.den = c.words
          /\ c.bookmark.percentage.num = currentIndex + 1

\* C19: every percentage passed to saveBookmark lies in [0, 100].
C19_PercentageInRange ==
    \A i \in 1..Len(puts) :
        /\ 0 <= puts[i].percentage.num
        /\ puts[i].percentage.num <= puts[i].percentage.den

\* C20: deleteBook removes a book and its bookmark in one step: after it both
\* are absent, and no step of the system takes a book out of the store and
\* leaves its bookmark, or takes a bookmark out and leaves its book.
C20_DeleteCascades ==
    [][\A b \in BookIds :
          /\ DeleteBook(b) => (b \notin books' /\ bookmarks'[b].absent)
          /\ (b \in books /\ b \notin books') => bookmarks'[b].absent
          /\ (~bookmarks[b].absent /\ bookmarks'[b].absent) => b \notin books']_vars

\* C20 witness: a book that had a bookmark was deleted and both are gone.
C20_Witness ==
    /\ lastOp = "deleteBookAndBookmark"
    /\ \E b \in BookIds : b \notin books /\ bookmarks[b].absent

\* C21: the store holds one position for each book id. A save that completes
\* puts its value in place of what the store held for its book and leaves the
\* other books' positions alone, a position comes into being only by a save
\* that completes, and getBookmark hands out what the store holds: absent for
\* a book no save was stored for.
C21_SaveOverwrites ==
    [][/\ bookmarks' \in [BookIds -> [absent : {TRUE}] \cup
                             [absent : {FALSE}, percentage : [num : Nat, den : Nat],
                              updatedAt : Nat]]
       /\ lastOp' = "putDone" =>
              \E i \in 1..Len(puts) :
                  /\ puts' = RemoveAt(puts, i)
                  /\ bookmarks'[puts[i].bookId] =
                         [absent |-> FALSE, percentage |-> puts[i].percentage,
                          updatedAt |-> puts[i].updatedAt]
                  /\ \A b \in BookIds \ {puts[i].bookId} : bookmarks'[b] = bookmarks[b]
       /\ \A b \in BookIds :
              (bookmarks[b].absent /\ ~bookmarks'[b].absent) => lastOp' = "putDone"
       /\ lastOp' \in {"restore", "staleRestore"} =>
              \A c \in inits' \ inits : c.bookmark = bookmarks[c.bookId]]_vars

\* C21 witness: getBookmark handed out the position the book had, and a save
\* that completed then put another one in its place.
C21_Witness ==
    /\ lastOp = "putDone"
    /\ \E c \in inits :
          /\ c.pc = "updateLastRead"
          /\ ~c.bookmark.absent
          /\ ~bookmarks[c.bookId].absent
          /\ bookmarks[c.bookId] # c.bookmark

\* C22: updateLastRead never makes a book exist that the store does not hold:
\* no step of a reader session, of its pending database calls or of a deletion
\* takes a book id that is absent from 'books' and leaves it present, so a book
\* deleted while updateLastRead is under way is absent once both are done.
C22_UpdateNeverCreates ==
    [][\A b \in BookIds : b \notin books => b \notin books']_vars

\* C23: the database is opened once for the process and every getDB call that
\* returns hands out the same handle, calls made while the database is being
\* opened included.
C23_OpenedOnce ==
    /\ opens <= 1
    /\ \A j, k \in Calls :
          (getDBs[j].pc = "returned" /\ getDBs[k].pc = "returned")
              => getDBs[j].handle = getDBs[k].handle

\* the extension of a file name: what follows its last dot, the whole name
\* when it has no dot, in lower case and with a dot before it
ExtensionOf(name) ==
    LET dots == {i \in 1..Len(name) : name[i] = "."}
        last == IF dots = {} THEN 0 ELSE CHOOSE i \in dots : \A j \in dots : j <= i
    IN <<".">> \o toLowerCase(SubSeq(name, last + 1, Len(name)))

\* a registered parser lists the file's extension or its MIME type
Supported(file) ==
    \E i \in 1..Len(parsers) :
        \/ ExtensionOf(file.name) \in parsers[i].supportedExtensions
        \/ file.type # "" /\ typeToLowerCase(file.type) \in parsers[i].mimeTypes

\* C24 as stated: an ingestion that has settled returned title, author and
\* text or failed with the unsupported-format error, the latter exactly when no
\* registered parser lists the file's extension or MIME type; after a failure
\* no book was added and the uploader is not uploading.
C24_TripleOrUnsupported ==
    /\ (upload.pc = "failed" /\ upload.error # "addBook")
           => upload.error = "Unsupported file type"
    /\ upload.pc \in {"failed", "parse", "addBook", "added"}
           => ((upload.pc = "failed" /\ upload.error = "Unsupported file type")
                  <=> ~Supported(upload.file))
    /\ upload.pc = "failed" => (books = BookIds /\ ~isUploading)

\* C24 amended: an ingestion that has settled returned title, author and text,
\* failed with the unsupported-format error, or failed with the error of the
\* parser registered for the file; the unsupported-format error exactly when no
\* registered parser lists the file's extension or MIME type; after a failure
\* of either kind no book was added and the uploader is not uploading.
C24_IngestOutcomes ==
    /\ upload.pc \in {"addBook", "added"}
           => DOMAIN upload.book = {"id", "title", "author", "text"}
    /\ (upload.pc = "failed" /\ upload.error # "addBook")
           => \/ upload.error = "Unsupported file type"
              \/ /\ Supported(upload.file)
                 /\ upload.error = getParserForFile(upload.file).parser
    /\ upload.pc \in {"failed", "parse", "addBook", "added"}
           => ((upload.pc = "failed" /\ upload.error = "Unsupported file type")
                  <=> ~Supported(upload.file))
    /\ upload.pc = "failed" => (books = BookIds /\ ~isUploading)

\* C24 witness: a file of a type no parser is registered for, under a name
\* with an extension, was refused.
C24_Witness ==
    /\ upload.pc = "failed"
    /\ upload.error = "Unsupported file type"
    /\ upload.file.type = "image/png"
    /\ \E i \in 1..Len(upload.file.name) : upload.file.name[i] = "."

\* the maximal runs of characters of a text that are not whitespace, in the
\* order they start in
MaximalRuns(t) ==
    LET starts == {i \in 1..Len(t) : t[i] \notin WhiteSpace /\ (i = 1 \/ t[i - 1] \in WhiteSpace)}
        nth(k) == CHOOSE i \in starts : Cardinality({x \in starts : x <= i}) = k
        end(i) == CHOOSE j \in i..Len(t) :
                      /\ \A k \in i..j : t[k] \notin WhiteSpace
                      /\ j = Len(t) \/ t[j + 1] \in WhiteSpace
    IN [k \in 1..Cardinality(starts) |-> SubSeq(t, nth(k), end(nth(k)))]

\* C25: the words made of a text are exactly its maximal runs of characters
\* that are not whitespace, in their order and character for character; no
\* word is empty or holds whitespace, and a text that is empty or all
\* whitespace gives no words.
C25_TokensAreMaximalRuns ==
    lastOp = "tokenize" =>
        /\ wordArray = MaximalRuns(rawText)
        /\ \A k \in 1..Len(wordArray) :
              /\ Len(wordArray[k]) > 0
              /\ \A j \in 1..Len(wordArray[k]) : wordArray[k][j] \notin WhiteSpace
        /\ (\A i \in 1..Len(rawText) : rawText[i] \in WhiteSpace) => Len(wordArray) = 0

\* C25 witness: a text that starts with whitespace and holds punctuation and a
\* capital letter was split into two words.
C25_Witness ==
    /\ lastOp = "tokenize"
    /\ Len(rawText) > 0 /\ rawText[1] \in WhiteSpace
    /\ Len(wordArray) = 2
    /\ \E k \in 1..2 : \E j \in 1..Len(wordArray[k]) : wordArray[k][j] \in {",", "B"}

\* the band of a word length
Band(length) ==
    CASE length <= 1 -> 0
      [] 2 <= length /\ length <= 5 -> 1
      [] 6 <= length /\ length <= 9 -> 2
      [] 10 <= length /\ length <= 13 -> 3
      [] length >= 14 -> 4

\* C26: the fixation point of the word displayed is 0 for lengths up to 1, 1
\* for 2 to 5, 2 for 6 to 9, 3 for 10 to 13 and 4 from 14 on: it is between 0
\* and 4, 0 for the empty word, and a longer word never has a lower one.
C26_FixationBands ==
    [][/\ orpIndex' = Band(currentWord')
       /\ 0 <= orpIndex' /\ orpIndex' <= 4
       /\ currentWord' = 0 => orpIndex' = 0
       /\ currentWord' >= currentWord => orpIndex' >= orpIndex]_vars

\* C26 witness: a word of 14 characters or more is displayed after a shorter
\* one, with the fixation point 4.
C26_Witness ==
    /\ lastOp = "showWord"
    /\ currentWord >= 14
    /\ orpIndex = 4

\* a number is within bounds, as JavaScript compares: NaN is within none
Within(size, lo, hi) == ~size.nan /\ lo <= size.value /\ size.value <= hi

ScaledBy(num1, den1, num2, den2) ==
    LET clamped == clampedFontSize(currentWord, viewportWidth)
        first == IF currentWord > 15 THEN FTimes(clamped, FDiv(FInt(num1), den1)) ELSE clamped
        second == IF currentWord > 20 THEN FTimes(first, FDiv(FInt(num2), den2)) ELSE first
    IN IF "nan" \in DOMAIN clamped THEN NaN ELSE Number(FFloor(second))

\* the clamp gave the lower bound for the word displayed
AtLowerBound == clampedFontSize(currentWord, viewportWidth) = FInt(minFontSize(viewportWidth))

Geq(a, b) == ~a.nan /\ ~b.nan /\ a.value >= b.value

\* C29: at a width that is not zero, a word at least as long as the one
\* displayed before is displayed no larger.
C29_NonIncreasingInLength ==
    [][(viewportWidth' = viewportWidth /\ viewportWidth # 0 /\ currentWord' >= currentWord)
           => Geq(fontSize, fontSize')]_vars

\* C30: a word displayed at a width that is not zero is displayed no smaller
\* when the window gets wider, the breakpoints at 640 and 1024 included.
C30_NonDecreasingInWidth ==
    [][(currentWord' = currentWord /\ viewportWidth # 0 /\ viewportWidth' >= viewportWidth)
           => Geq(fontSize', fontSize)]_vars

\* C31: a word of at least one character displayed at a width that is not zero
\* fits the available width: its size times 0.6 times its length is at most
\* 95% of the column.
C31_WordsFit ==
    (currentWord >= 1 /\ viewportWidth # 0) =>
        /\ ~fontSize.nan
        /\ fontSize.value * 12 * currentWord <= 19 * columnWidth(viewportWidth)

\* C32: the font size of the word displayed, the empty word included, is an
\* integer greater than 0 at every width, and 96 at width 0.
C32_PositiveInteger ==
    /\ ~fontSize.nan
    /\ fontSize.value \in Int
    /\ fontSize.value > 0
    /\ viewportWidth = 0 => fontSize = Number(96)

C34_StoppedStaysPut ==
    [][~isPlaying =>
          /\ lastOp' \notin {"advance", "frame"}
          /\ currentIndex' # currentIndex =>
                lastOp' \in SeekOps \cup {"restore", "unmount"}]_vars

\* C34 witness: a seek stopped the running clock away from the ends of the
\* text, and the callback that was pending is gone.
C34_Witness ==
    /\ lastOp \in SeekOps
    /\ wasPlaying
    /\ ~isPlaying
    /\ frames = {}
    /\ rafRef = 0
    /\ now > 0
    /\ 0 < currentIndex /\ currentIndex < words - 1

\* C35: currentIndex is never negative, whatever the words are and whatever
\* keys and clicks arrive.
C35_IndexNeverNegative == currentIndex >= 0

\* C36: at most one frame callback is pending at any time, the one whose
\* handle rafRef holds, and none is pending once isPlaying is false and the
\* playback effect has run.
C36_OneCallback ==
    /\ Cardinality(frames) <= 1
    /\ \A f \in frames : f.id = rafRef
    /\ ~isPlaying => frames = {}

\* C36 witness: the rate was changed while the clock was running, and the one
\* callback pending is the one the playback effect has just requested.
C36_Witness ==
    /\ lastOp = "setWpm"
    /\ wasPlaying
    /\ isPlaying
    /\ Cardinality(frames) = 1
    /\ \A f \in frames : f.id = rafRef /\ f.reqAt = now /\ f.wpm = wpm
    /\ now > 0

\* C37: while the bookmark read of a session is pending, whether the session
\* is still open or was torn down, the stored position of its book is the one
\* the store held when the session began: the session's first save, of index
\* 0, does not replace it before the read returns. Nor is it replaced right
\* after the read of a session that was torn down has returned.
C37_RestoreReadsPrevious ==
    [][/\ \A c \in inits :
             c.pc = "getBookmark" => bookmarks'[c.bookId] = bookmarks[c.bookId]
       /\ lastOp = "staleRestore" => bookmarks' = bookmarks]_vars

\* C38: the store holds a position only for a book it holds: once a book is
\* deleted, no save that completes later leaves a position stored for it.
C38_PositionOnlyForDocument ==
    \A b \in BookIds : b \notin books => bookmarks[b].absent

\* C39: the fixation index of a word of at least one character is a position
\* of the word: at least 0 and less than its length.
C39_FixationInsideWord ==
    currentWord >= 1 => (0 <= orpIndex /\ orpIndex < currentWord)

\* C39 witness: a word of two characters is displayed with the fixation on its
\* last character, and one of 14 with the fixation on its fifth.
C39_Witness ==
    /\ lastOp = "showWord"
    /\ \/ currentWord = 2 /\ orpIndex = 1
       \/ currentWord = 14 /\ orpIndex = 4

====
